---- MODULE Spec2Model ----
(***************************************************************************)
(* DevLog: the validated local-storage persistence layer.                  *)
(*                                                                         *)
(* The model follows utils/storage.ts and utils/security.ts                *)
(* (src/unnamed/part_001).  utils/validation.ts is not among the sources;  *)
(* its five functions are modelled from section 4.1 of the specification.  *)
(*                                                                         *)
(* Values of the dynamically typed world (JSON values, untrusted call      *)
(* arguments, the raw string kept by localStorage) are records             *)
(* [t |-> <type tag>, v |-> <payload sequence>].  A string is a sequence   *)
(* of atoms; an atom is one character (" ", "<", "a") or one whole word    *)
(* that is never split ("constructor", an identifier, an ISO time).        *)
(***************************************************************************)
EXTENDS Integers, Sequences, FiniteSets, TLC

VARIABLES
    store,    \* localStorage['devlog_entries']: Null when the key is absent
    op,       \* the last call: [name, id, input]
    err,      \* how the last call ended: "none" or the kind of error thrown
    ret,      \* the entries the last call returned (getEntries: all; addEntry: <<new>>)
    hit,      \* the last call found an entry with the id; getEntries: removed the
              \* key; check: returned true
    added,    \* <<e>>: e was returned by addEntry and no write happened since
    stats,    \* the last result of getStatistics, <<>> before the first call
    lost,     \* how many readable elements the last call discarded with the key
    live,     \* the entries added and not deleted since, as last updated
    ctx,      \* per browsing context: a call between its read and its write
    history,  \* ids returned by addEntry, ids given to deleteEntry, adds made
    others,   \* the other keys of localStorage: Null when a key is absent
    limiter   \* rateLimiter: its attempts, the time, and the times of the calls
              \* of check that returned true since the key was last reset

vars ==
    <<store, op, err, ret, hit, added, stats, lost, live, ctx, history, others,
      limiter>>

(***************************************************************************)
(* Bounds of the model.                                                    *)
(***************************************************************************)
\* stands for the cap of 10000 entries (storage.addEntry, part_001:236)
MaxEntries == 2
\* stands for the 5 MB guard of SecureStorage.setItem (part_001:83), in size units
MaxBlobSize == 26
\* length bounds of validation.ts (free text, tag, category), in atoms
MaxTextLen == 8
MaxTagLen == 2
MaxCategoryLen == 2
\* stands for the 10 of slice(0, 10) in getStatistics (part_001:304, 308)
TopN == 2

(***************************************************************************)
(* Dynamically typed values.                                               *)
(***************************************************************************)
Undef == [t |-> "undefined", v |-> <<>>]
Null == [t |-> "null", v |-> <<>>]
Num == [t |-> "number", v |-> <<>>]
Str(s) == [t |-> "string", v |-> s]
Arr(a) == [t |-> "array", v |-> a]
\* a JSON object read as an entry: only these five keys are ever looked at
Obj(id, message, tags, category, timestamp) ==
    [t |-> "object", v |-> <<id, message, tags, category, timestamp>>]
\* a Date object holding the time n (milliseconds)
Date(n) == [t |-> "date", v |-> <<n>>]
\* the raw text kept under a key: "" is Text(<<>>)
Text(s) == [t |-> "text", v |-> s]
\* the raw text JSON.stringify produces for the JSON value j
JsonText(j) == [t |-> "json", v |-> <<j>>]

IsString(x) == x.t = "string"
\* JavaScript truthiness of the values above (the abstract number is non-zero)
Truthy(x) == ~(x.t \in {"undefined", "null"} \/ (x.t \in {"string", "text"} /\ x.v = <<>>))

(***************************************************************************)
(* Validation layer (utils/validation.ts), from section 4.1.  A validator  *)
(* either returns a normalized value or throws: [ok, val].                 *)
(***************************************************************************)
Markup == {"<", ">"}
Punctuation == {"!"}
\* the identifiers the generators produce: 32 hex digits, or a UUID
IdAtoms == {"uuid-1", "uuid-2", "hex-3"}
\* ISO-8601 texts of the times 1, 2, 3: Date.toISOString and its parse
IsoTable == <<"T1", "T2", "T3">>
SaneTimes == DOMAIN IsoTable

Fail == [ok |-> FALSE, val |-> <<>>]
Ok(x) == [ok |-> TRUE, val |-> x]

RECURSIVE TrimLeft(_)
TrimLeft(s) == IF s # <<>> /\ Head(s) = " " THEN TrimLeft(Tail(s)) ELSE s

RECURSIVE TrimRight(_)
TrimRight(s) ==
    IF s # <<>> /\ s[Len(s)] = " " THEN TrimRight(SubSeq(s, 1, Len(s) - 1)) ELSE s

Trim(s) == TrimRight(TrimLeft(s))

Strip(s, bad) == SelectSeq(s, LAMBDA c : c \notin bad)

\* trims, enforces the maximum length, strips markup; the result is never empty
SanitizeBounded(raw, max, bad) ==
    IF ~IsString(raw) THEN Fail
    ELSE LET t == Trim(raw.v)
             r == Trim(Strip(t, bad))
         IN  IF Len(t) > max \/ r = <<>> THEN Fail ELSE Ok(r)

validateAndSanitizeText(raw) == SanitizeBounded(raw, MaxTextLen, Markup)

validateAndSanitizeCategory(raw) ==
    SanitizeBounded(raw, MaxCategoryLen, Markup \cup Punctuation)

validateEntryId(raw) ==
    IF IsString(raw) /\ Len(raw.v) = 1 /\ raw.v[1] \in IdAtoms THEN Ok(raw.v) ELSE Fail

\* fail fast: one bad element voids the list
validateTags(raw) ==
    IF raw.t # "array" THEN Fail
    ELSE LET each == [i \in DOMAIN raw.v |-> SanitizeBounded(raw.v[i], MaxTagLen, Markup)]
         IN  IF \E i \in DOMAIN each : ~each[i].ok THEN Fail
             ELSE Ok([i \in DOMAIN each |-> each[i].val])

toISOString(n) == Str(<<IsoTable[n]>>)

\* accepts a Date or an ISO-8601 string of a time in the sane range
validateTimestamp(raw) ==
    IF raw.t = "date" /\ raw.v[1] \in SaneTimes THEN Ok(raw.v[1])
    ELSE IF IsString(raw) /\ Len(raw.v) = 1
            /\ \E n \in SaneTimes : IsoTable[n] = raw.v[1]
         THEN Ok(CHOOSE n \in SaneTimes : IsoTable[n] = raw.v[1])
         ELSE Fail

(***************************************************************************)
(* RateLimiter (utils/security.ts): `new RateLimiter(10, 60000)`.          *)
(***************************************************************************)
\* stands for the 10 attempts of rateLimiter (part_001:66)
maxAttempts == 2
\* stands for the window of 60000 ms of rateLimiter (part_001:66), in ticks
windowMs == 3
\* the last value of Date.now() in the model
MaxTime == 7
\* keys check and reset are called with
LimiterKeys == {"k1", "k2"}

\* `new Map()`: a key that is absent reads as [] (`get(key) || []`); the
\* times of the true returns are kept beside it
NewLimiter ==
    [attempts |-> [key \in LimiterKeys |-> <<>>],
     now |-> 0,
     granted |-> [key \in LimiterKeys |-> <<>>]]

\* `attempts.filter(time => now - time < this.windowMs)`
validAttempts(times, now) == SelectSeq(times, LAMBDA time : now - time < windowMs)

\* mutant: `validAttempts.length > this.maxAttempts`
limitReachedOffByOne(valid) == Len(valid) > maxAttempts

\* `validAttempts.length >= this.maxAttempts`
limitReached(valid) == Len(valid) >= maxAttempts

\* RateLimiter.check(key) at the time now: what it returns and the map after
check(key, now, attempts) ==
    LET decide(valid) ==
            IF limitReached(valid) THEN [result |-> FALSE, attempts |-> attempts]
            ELSE [result |-> TRUE,
                  attempts |-> [attempts EXCEPT ![key] = Append(valid, now)]]
    IN  decide(validAttempts(attempts[key], now))

\* RateLimiter.reset(key): `this.attempts.delete(key)`
reset(key, attempts) == [attempts EXCEPT ![key] = <<>>]

(***************************************************************************)
(* SecureStorage (utils/security.ts) over the one key 'devlog_entries'.    *)
(***************************************************************************)
RECURSIVE SumSizes(_, _)
RECURSIVE SizeOf(_)
\* the size of a value in units: one per atom, one per array or object
SizeOf(x) ==
    CASE x.t \in {"string", "text"} -> Len(x.v)
      [] x.t \in {"array", "object", "json"} -> 1 + SumSizes(x.v, Len(x.v))
      [] x.t \in {"undefined", "null"} -> 0
      [] OTHER -> 1
SumSizes(s, n) == IF n = 0 THEN 0 ELSE SizeOf(s[n]) + SumSizes(s, n - 1)

\* localStorage.setItem with `full`: the platform has no room for growth and
\* throws the DOMException named QuotaExceededError.  Replacing a value by one
\* that is not larger never fails.
localStorageSetItem(value, old, full) ==
    IF full /\ SizeOf(value) > SizeOf(old) THEN "QuotaExceededError" ELSE "none"

\* mutant: the catch block rethrows whatever it caught
rethrow(thrown) == thrown

\* the catch block of setItem: the platform's quota exception becomes the
\* error 'Storage quota exceeded. Please clear some entries.', anything else
\* is thrown on as it is
translate(thrown) == IF thrown = "QuotaExceededError" THEN "quota" ELSE thrown

\* how SecureStorage.setItem(key, value) ends for a key that passes the test:
\* "quota-guard" is the error 'Storage quota exceeded' of the size guard
setItemError(value, old, full) ==
    IF SizeOf(value) > MaxBlobSize THEN translate("quota-guard")
    ELSE translate(localStorageSetItem(value, old, full))

\* 'devlog_', one atom, and the key of the one collection
STORAGE_KEY_PREFIX == <<"devlog_">>
STORAGE_KEY == <<"entries">>
\* atoms made of letters, digits, '_' and '-' only
KeyAtoms == {"entries", "theme", "devlog", "devlog_"}

\* `/^[a-zA-Z0-9_-]+$/.test(key)`
validKey(key) == key # <<>> /\ \A k \in DOMAIN key : key[k] \in KeyAtoms

\* `${this.STORAGE_KEY_PREFIX}${key}`
fullKey(key) == STORAGE_KEY_PREFIX \o key

\* `key.startsWith(this.STORAGE_KEY_PREFIX)`
startsWith(key, prefix) ==
    Len(key) >= Len(prefix) /\ SubSeq(key, 1, Len(prefix)) = prefix

\* SecureStorage over the whole of localStorage, a function ls from full keys
\* to raw values.  setItem: the error thrown and localStorage afterwards
setItem(key, value, ls, full) ==
    IF ~validKey(key) THEN [err |-> translate("invalid-key"), ls |-> ls]
    ELSE LET result(e) ==
                 [err |-> e,
                  ls |-> IF e = "none" THEN [ls EXCEPT ![fullKey(key)] = value] ELSE ls]
         IN  result(setItemError(value, ls[fullKey(key)], full))

getItem(key, ls) == IF ~validKey(key) THEN Null ELSE ls[fullKey(key)]

removeItem(key, ls) ==
    IF ~validKey(key) THEN ls ELSE [ls EXCEPT ![fullKey(key)] = Null]

\* mutant: clear removes every key
clearAll(ls) == [k \in DOMAIN ls |-> Null]

clear(ls) ==
    [k \in DOMAIN ls |-> IF startsWith(k, STORAGE_KEY_PREFIX) THEN Null ELSE ls[k]]

(***************************************************************************)
(* storage (utils/storage.ts).  An entry in memory is a record             *)
(* [id, message, tags, category, timestamp]: id and message strings, tags  *)
(* a sequence of strings, category Undef or Str(..), timestamp a time.     *)
(***************************************************************************)
Entry(id, message, tags, category, timestamp) ==
    [id |-> id, message |-> message, tags |-> tags, category |-> category,
     timestamp |-> timestamp]

\* `x ? validateAndSanitizeCategory(x) : undefined`
categoryOrUndefined(x) ==
    IF Truthy(x)
    THEN LET c == validateAndSanitizeCategory(x) IN IF c.ok THEN Ok(Str(c.val)) ELSE Fail
    ELSE Ok(Undef)

\* all five validations pass: the entry built from their values
entryOf(i, m, g, c, d) ==
    IF i.ok /\ m.ok /\ g.ok /\ c.ok /\ d.ok
    THEN Ok(Entry(i.val, m.val, g.val, c.val, d.val))
    ELSE Fail

\* mutant: the tags are validated whatever they are
readEntryStrict(e) ==
    IF e.t # "object" THEN Fail
    ELSE IF ~IsString(e.v[1]) \/ ~IsString(e.v[2]) THEN Fail
    ELSE entryOf(validateEntryId(e.v[1]),
                 validateAndSanitizeText(e.v[2]),
                 validateTags(e.v[3]),
                 categoryOrUndefined(e.v[4]),
                 validateTimestamp(e.v[5]))

\* the callback of parsed.map in getEntries, on one element of the array
readEntry(e) ==
    IF e.t # "object" THEN Fail
    ELSE IF ~IsString(e.v[1]) \/ ~IsString(e.v[2]) THEN Fail
    ELSE entryOf(validateEntryId(e.v[1]),
                 validateAndSanitizeText(e.v[2]),
                 IF e.v[3].t = "array" THEN validateTags(e.v[3]) ELSE Ok(<<>>),
                 categoryOrUndefined(e.v[4]),
                 validateTimestamp(e.v[5]))

\* mutant: a callback that throws is skipped
allOrSkip(each) ==
    LET good == SelectSeq(each, LAMBDA r : r.ok)
    IN  Ok([k \in DOMAIN good |-> good[k].val])

\* the results of a map whose callback may throw: all values, or the throw
allOrFail(each) ==
    IF \E k \in DOMAIN each : ~each[k].ok THEN Fail
    ELSE Ok([k \in DOMAIN each |-> each[k].val])

\* mutant: the catch branch forgets removeItem
failWithoutRemove(st) == [entries |-> <<>>, store |-> st]

\* the catch branch of getEntries: the key is removed, nothing is returned
failClosed(st) == [entries |-> <<>>, store |-> Null]

\* mutant: the catch branch returns the elements that were readable
getEntriesPartial(st) ==
    IF ~Truthy(st) THEN [entries |-> <<>>, store |-> st]
    ELSE IF st.t # "json" \/ st.v[1].t # "array" THEN failClosed(st)
    ELSE LET each == [k \in DOMAIN st.v[1].v |-> readEntry(st.v[1].v[k])]
             good == SelectSeq(each, LAMBDA r : r.ok)
         IN  IF Len(good) = Len(each)
             THEN [entries |-> [k \in DOMAIN each |-> each[k].val], store |-> st]
             ELSE [entries |-> [k \in DOMAIN good |-> good[k].val], store |-> Null]

\* storage.getEntries on the raw value st: the entries returned and the raw
\* value left behind (Null after the catch branch has removed the key)
getEntries(st) ==
    IF ~Truthy(st) THEN [entries |-> <<>>, store |-> st]
    ELSE IF st.t # "json" \/ st.v[1].t # "array" THEN failClosed(st)
    ELSE LET result(all) == IF all.ok THEN [entries |-> all.val, store |-> st]
                            ELSE failClosed(st)
         IN  result(allOrFail([k \in DOMAIN st.v[1].v |-> readEntry(st.v[1].v[k])]))

\* mutant: the category is left out of the object that is written
objectOfNoCategory(i, m, g, c, d) ==
    IF i.ok /\ m.ok /\ g.ok /\ c.ok /\ d.ok
    THEN Ok(Obj(Str(i.val), Str(m.val), Arr([k \in DOMAIN g.val |-> Str(g.val[k])]),
                Undef, toISOString(d.val)))
    ELSE Fail

\* mutant: the timestamp is written as a number, `getTime()`
objectOfRawTime(i, m, g, c, d) ==
    IF i.ok /\ m.ok /\ g.ok /\ c.ok /\ d.ok
    THEN Ok(Obj(Str(i.val), Str(m.val), Arr([k \in DOMAIN g.val |-> Str(g.val[k])]),
                c.val, Num))
    ELSE Fail

\* the object saveEntries builds from five validated values
objectOf(i, m, g, c, d) ==
    IF i.ok /\ m.ok /\ g.ok /\ c.ok /\ d.ok
    THEN Ok(Obj(Str(i.val), Str(m.val), Arr([k \in DOMAIN g.val |-> Str(g.val[k])]),
                c.val, toISOString(d.val)))
    ELSE Fail

\* the callback of entries.map in saveEntries, on one entry
writeEntry(e) ==
    objectOf(validateEntryId(Str(e.id)),
             validateAndSanitizeText(Str(e.message)),
             validateTags(Arr([k \in DOMAIN e.tags |-> Str(e.tags[k])])),
             categoryOrUndefined(e.category),
             validateTimestamp(Date(e.timestamp)))

\* mutant: the array is written last element first
serializeReversed(objects) ==
    JsonText(Arr([k \in DOMAIN objects |-> objects[Len(objects) + 1 - k]]))

\* JSON.stringify(validatedEntries)
serialize(objects) == JsonText(Arr(objects))

\* mutant: the value is stored before the quota is checked
writeItemThenCheck(serialized, st, full) ==
    [err |-> setItemError(serialized, st, full), store |-> serialized]

\* mutant: the elements written are added to the array the key holds
writeItemAppend(serialized, st, full) ==
    [err |-> "none",
     store |-> IF st.t = "json" /\ st.v[1].t = "array"
               THEN JsonText(Arr(st.v[1].v \o serialized.v[1].v))
               ELSE serialized]

\* SecureStorage.setItem(STORAGE_KEY, serialized) inside saveEntries
writeItem(serialized, st, full) ==
    LET result(e) == [err |-> e, store |-> IF e = "none" THEN serialized ELSE st]
    IN  result(setItemError(serialized, st, full))

\* storage.saveEntries(entries) on the raw value st: the error thrown and the
\* raw value afterwards
saveEntries(entries, st, full) ==
    LET result(all) == IF ~all.ok THEN [err |-> "validation", store |-> st]
                       ELSE writeItem(serialize(all.val), st, full)
    IN  result(allOrFail([k \in DOMAIN entries |-> writeEntry(entries[k])]))

\* mutant: `entries.length > 10000`
capReachedOffByOne(entries) == Len(entries) > MaxEntries

\* `entries.length >= 10000`
capReached(entries) == Len(entries) >= MaxEntries

Outcome(e, st, r, h) == [err |-> e, store |-> st, ret |-> r, hit |-> h]

\* the three validations at the head of addEntry pass
validAddInput(input) ==
    /\ validateAndSanitizeText(input.message).ok
    /\ validateTags(input.tags).ok
    /\ categoryOrUndefined(input.category).ok

\* mutant: the new entry takes the id of the first entry
pushSameId(entries, newEntry) ==
    Append(entries, IF entries = <<>> THEN newEntry
                    ELSE [newEntry EXCEPT !.id = entries[1].id])

\* mutant: the new entry replaces the collection
pushReplace(entries, newEntry) == <<newEntry>>

\* `entries.push(newEntry)`
push(entries, newEntry) == Append(entries, newEntry)

\* addEntry from `const entries = this.getEntries()` on: got is what
\* getEntries returned and left behind
addValidated(newEntry, got, full) ==
    IF capReached(got.entries) THEN Outcome("capacity", got.store, <<>>, FALSE)
    ELSE LET result(saved) ==
                 IF saved.err # "none" THEN Outcome(saved.err, saved.store, <<>>, FALSE)
                 ELSE Outcome("none", saved.store, <<newEntry>>, FALSE)
         IN  result(saveEntries(push(got.entries, newEntry), got.store, full))

\* `{ ...validatedEntry, id, timestamp: new Date() }`
newEntryOf(input, id, now) ==
    Entry(id,
          validateAndSanitizeText(input.message).val,
          validateTags(input.tags).val,
          categoryOrUndefined(input.category).val,
          now)

\* storage.addEntry(input); id and now are what the id generator and the
\* clock return
addEntry(input, id, now, st, full) ==
    IF ~validAddInput(input) THEN Outcome("validation", st, <<>>, FALSE)
    ELSE addValidated(newEntryOf(input, id, now), getEntries(st), full)

\* mutant: the filter is inverted, `entry.id === validatedId`
keepId(entries, id) == SelectSeq(entries, LAMBDA e : e.id = id)

\* mutant: only the first entry with the id is removed
removeFirstId(entries, id) ==
    IF \E k \in DOMAIN entries : entries[k].id = id
    THEN LET k == CHOOSE j \in DOMAIN entries :
                      entries[j].id = id /\ \A i \in 1..(j - 1) : entries[i].id # id
         IN  SubSeq(entries, 1, k - 1) \o SubSeq(entries, k + 1, Len(entries))
    ELSE entries

\* `entries.filter((entry) => entry.id !== validatedId)`
removeId(entries, id) == SelectSeq(entries, LAMBDA e : e.id # id)

\* deleteEntry from `const entries = this.getEntries()` on
deleteValidated(id, got, full) ==
    LET result(filtered, saved) ==
            Outcome(saved.err, saved.store, <<>>, Len(filtered) < Len(got.entries))
    IN  result(removeId(got.entries, id),
               saveEntries(removeId(got.entries, id), got.store, full))

\* storage.deleteEntry(id)
deleteEntry(id, st, full) ==
    IF ~validateEntryId(id).ok THEN Outcome("validation", st, <<>>, FALSE)
    ELSE deleteValidated(validateEntryId(id).val, getEntries(st), full)

\* mutant: an id that is not found falls back to the first entry
findIndexOrFirst(entries, id) ==
    IF \E k \in DOMAIN entries : entries[k].id = id
    THEN CHOOSE k \in DOMAIN entries :
             entries[k].id = id /\ \A j \in 1..(k - 1) : entries[j].id # id
    ELSE IF entries = <<>> THEN 0 ELSE 1

\* `entries.findIndex((entry) => entry.id === validatedId)`, 0 for -1
findIndex(entries, id) ==
    IF \E k \in DOMAIN entries : entries[k].id = id
    THEN CHOOSE k \in DOMAIN entries :
             entries[k].id = id /\ \A j \in 1..(k - 1) : entries[j].id # id
    ELSE 0

\* the three guarded validations of updateEntry: a key that is not given is
\* not validated
updateMessage(updates) ==
    IF updates.message.t # "undefined" THEN validateAndSanitizeText(updates.message)
    ELSE Ok(<<>>)
updateTags(updates) ==
    IF updates.tags.t # "undefined" THEN validateTags(updates.tags) ELSE Ok(<<>>)
updateCategory(updates) ==
    IF updates.category.t # "undefined" THEN categoryOrUndefined(updates.category)
    ELSE Ok(Undef)

\* mutant: `{ ...entries[index], ...validatedUpdates, ...updates }` lets the
\* id and the timestamp of the updates through
mergeRawUpdates(old, updates) ==
    Entry(IF updates.id.t = "string" THEN updates.id.v ELSE old.id,
          IF updates.message.t # "undefined" THEN updateMessage(updates).val
          ELSE old.message,
          IF updates.tags.t # "undefined" THEN updateTags(updates).val ELSE old.tags,
          IF updates.category.t # "undefined" THEN updateCategory(updates).val
          ELSE old.category,
          IF updates.timestamp.t = "date" THEN updates.timestamp.v[1]
          ELSE old.timestamp)

\* `{ ...entries[index], ...validatedUpdates }`: validatedUpdates holds only
\* the keys message, tags, category, and only those given
mergeUpdates(old, updates) ==
    Entry(old.id,
          IF updates.message.t # "undefined" THEN updateMessage(updates).val
          ELSE old.message,
          IF updates.tags.t # "undefined" THEN updateTags(updates).val ELSE old.tags,
          IF updates.category.t # "undefined" THEN updateCategory(updates).val
          ELSE old.category,
          old.timestamp)

\* updateEntry from `const entries = this.getEntries()` on
updateValidated(id, updates, got, full) ==
    LET found(index) ==
            IF index = 0 THEN Outcome("not-found", got.store, <<>>, FALSE)
            ELSE IF ~(updateMessage(updates).ok /\ updateTags(updates).ok
                      /\ updateCategory(updates).ok)
            THEN Outcome("validation", got.store, <<>>, TRUE)
            ELSE LET result(saved) ==
                         Outcome(saved.err, saved.store, <<>>, TRUE)
                 IN  result(saveEntries(
                         [got.entries EXCEPT
                              ![index] = mergeUpdates(got.entries[index], updates)],
                         got.store, full))
    IN  found(findIndex(got.entries, id))

\* storage.updateEntry(id, updates)
updateEntry(id, updates, st, full) ==
    IF ~validateEntryId(id).ok THEN Outcome("validation", st, <<>>, FALSE)
    ELSE updateValidated(validateEntryId(id).val, updates, getEntries(st), full)

(***************************************************************************)
(* storage.getStatistics.  tagCounts and categoryCounts are plain objects  *)
(* ({}): a sequence of own properties [key, count] in creation order, over *)
(* the properties inherited from Object.prototype.  A count is             *)
(* [num, n]: the number n, or (num = FALSE) a string that is no number,    *)
(* n being how many times "1" was appended to it.                          *)
(***************************************************************************)
\* names every object inherits, among the atoms of the model
InheritedKeys == {<<"constructor">>}
\* the accessor Object.prototype.__proto__: reads the prototype, and its
\* setter ignores a value that is not an object
ProtoKey == <<"__proto__">>
\* canonical array indices: Object.entries lists them first, ascending
IndexKeys == <<(<<"1">>), (<<"2">>)>>

Number(n) == [num |-> TRUE, n |-> n]
NotANumber(n) == [num |-> FALSE, n |-> n]
Pair(key, count) == [key |-> key, count |-> count]

ownIndex(counts, key) ==
    IF \E k \in DOMAIN counts : counts[k].key = key
    THEN CHOOSE k \in DOMAIN counts : counts[k].key = key
    ELSE 0

\* `counts[key] = (counts[key] || 0) + 1`
increment(counts, key) ==
    LET at(k) ==
            IF k # 0
            THEN [counts EXCEPT ![k].count.n = @ + 1]
            ELSE IF key = ProtoKey THEN counts
            ELSE IF key \in InheritedKeys THEN Append(counts, Pair(key, NotANumber(1)))
            ELSE Append(counts, Pair(key, Number(1)))
    IN  at(ownIndex(counts, key))

RECURSIVE incrementAll(_, _)
\* `keys.forEach((key) => { counts[key] = ... })`
incrementAll(counts, keys) ==
    IF keys = <<>> THEN counts
    ELSE incrementAll(increment(counts, Head(keys)), Tail(keys))

RECURSIVE countTags(_, _)
\* the forEach over the entries, for tagCounts
countTags(counts, entries) ==
    IF entries = <<>> THEN counts
    ELSE countTags(incrementAll(counts, Head(entries).tags), Tail(entries))

RECURSIVE countCategories(_, _)
\* the forEach over the entries, for categoryCounts: `if (entry.category)`
countCategories(counts, entries) ==
    IF entries = <<>> THEN counts
    ELSE countCategories(
             IF Truthy(Head(entries).category)
             THEN increment(counts, Head(entries).category.v) ELSE counts,
             Tail(entries))

\* mutant: the properties are listed as they were created
ownEntries(counts) == counts

\* Object.entries(counts): index keys ascending, then the others as created
objectEntries(counts) ==
    LET isIndex(p) == \E k \in DOMAIN IndexKeys : IndexKeys[k] = p.key
        indexed == [k \in DOMAIN IndexKeys |-> SelectSeq(counts, LAMBDA p : p.key = IndexKeys[k])]
        RECURSIVE flat(_)
        flat(k) == IF k = 0 THEN <<>> ELSE flat(k - 1) \o indexed[k]
    IN  flat(Len(IndexKeys)) \o SelectSeq(counts, LAMBDA p : ~isIndex(p))

RECURSIVE insertByCount(_, _)
\* x placed after every pair whose count is not smaller: a stable sort step
insertByCount(sorted, x) ==
    IF sorted = <<>> THEN <<x>>
    ELSE IF Head(sorted).count.n >= x.count.n
         THEN <<Head(sorted)>> \o insertByCount(Tail(sorted), x)
         ELSE <<x>> \o sorted

RECURSIVE stableSort(_, _)
stableSort(sorted, rest) ==
    IF rest = <<>> THEN sorted
    ELSE stableSort(insertByCount(sorted, Head(rest)), Tail(rest))

Reorderings(pairs) ==
    { [k \in DOMAIN pairs |-> pairs[f[k]]] :
        f \in { g \in [DOMAIN pairs -> DOMAIN pairs] :
                  \A i, j \in DOMAIN pairs : i # j => g[i] # g[j] } }

\* `.sort(([, a], [, b]) => b - a)`: stable and descending on numbers; with
\* a count that is no number b - a is NaN, the comparator is inconsistent
\* and the order is whatever the engine's sort leaves
sortResults(pairs) ==
    IF \A k \in DOMAIN pairs : pairs[k].count.num
    THEN {stableSort(<<>>, pairs)}
    ELSE Reorderings(pairs)

\* `.slice(0, 10)`
slice(pairs) == SubSeq(pairs, 1, IF Len(pairs) < TopN THEN Len(pairs) ELSE TopN)

\* the object getStatistics returns, for one outcome of each sort
Statistics(entries, tagCounts, categoryCounts, sortedTags, sortedCategories) ==
    [totalEntries |-> Len(entries),
     totalTags |-> Len(tagCounts),
     totalCategories |-> Len(categoryCounts),
     mostUsedTags |-> slice(sortedTags),
     mostUsedCategories |-> slice(sortedCategories)]

\* storage.getStatistics over the entries getEntries returned: the results
\* the engine can produce
getStatistics(entries) ==
    LET results(tagCounts, categoryCounts) ==
            { Statistics(entries, tagCounts, categoryCounts, t, c) :
                t \in sortResults(objectEntries(tagCounts)),
                c \in sortResults(objectEntries(categoryCounts)) }
    IN  results(countTags(<<>>, entries), countCategories(<<>>, entries))

(***************************************************************************)
(* The calls the callers make, and what can be found under the key.        *)
(***************************************************************************)
In(message, tags, category, id, timestamp) ==
    [message |-> message, tags |-> tags, category |-> category, id |-> id,
     timestamp |-> timestamp]
NoInput == In(Undef, Undef, Undef, Undef, Undef)

\* a text longer than validateAndSanitizeText accepts
TooLong == [k \in 1..(MaxTextLen + 1) |-> "a"]
\* a long message, as given (with markup, with a trailing blank) and sanitized
Long == <<"b", "b", "b", "b", "b", "b", "b">>

\* arguments of addEntry: two valid field sets, and one argument for each
\* way validation fails
AddInputs ==
    { In(Str(<<" ", "a">>), Arr(<<>>), Undef, Undef, Undef),
      In(Str(<<"<">> \o Long), Arr(<<Str(<<"t", " ">>)>>), Str(<<"w", "!">>), Undef, Undef),
      In(Str(<<" ">>), Arr(<<>>), Undef, Undef, Undef),
      In(Str(TooLong), Arr(<<>>), Undef, Undef, Undef),
      In(Str(<<"a">>), Undef, Undef, Undef, Undef),
      In(Str(<<"a">>), Arr(<<Str(<<"<">>)>>), Undef, Undef, Undef),
      In(Str(<<"a">>), Arr(<<>>), Num, Undef, Undef) }

\* arguments of updateEntry: partial updates, one carrying id and timestamp,
\* the empty one and an invalid one
UpdateInputs ==
    { In(Str(Long \o <<" ">>), Undef, Undef, Undef, Undef),
      In(Undef, Arr(<<Str(<<"t">>)>>), Str(<<"w">>), Undef, Undef),
      In(Str(<<"a">>), Arr(<<>>), Str(<<>>), Str(<<"hex-3">>), Date(3)),
      In(Str(<<"<">>), Undef, Undef, Undef, Undef),
      NoInput }

\* ids the callers pass: two well-formed ones and a malformed one
CallIds == {Str(<<"uuid-1">>), Str(<<"uuid-2">>), Str(<<"bad">>)}
\* ids crypto.randomUUID / generateSecureId return in the model
NewIds == {<<"uuid-1">>, <<"uuid-2">>}
\* values of new Date()
Clock == {1, 2}

GoodObj(id, message) ==
    Obj(Str(<<id>>), Str(message), Arr(<<>>), Undef, Str(<<"T1">>))

\* values another tab, or a manual edit, leaves under the key
ExternalValues ==
    { Null,
      Text(<<>>),
      Text(<<"garbage">>),
      JsonText(Num),
      JsonText(Obj(Undef, Undef, Undef, Undef, Undef)),
      JsonText(Arr(<<Num>>)),
      JsonText(Arr(<<GoodObj("uuid-1", <<"a">>), Null>>)),
      JsonText(Arr(<<Obj(Undef, Str(<<"a">>), Arr(<<>>), Undef, Str(<<"T1">>))>>)),
      JsonText(Arr(<<Obj(Str(<<"uuid-1">>), Num, Arr(<<>>), Undef, Str(<<"T1">>))>>)),
      JsonText(Arr(<<Obj(Str(<<"bad">>), Str(<<"a">>), Arr(<<>>), Undef, Str(<<"T1">>))>>)),
      JsonText(Arr(<<Obj(Str(<<"uuid-1">>), Str(<<"a">>), Arr(<<>>), Undef, Undef)>>)),
      JsonText(Arr(<<Obj(Str(<<"uuid-1">>), Str(<<"a">>), Arr(<<Num>>), Undef, Str(<<"T1">>))>>)),
      JsonText(Arr(<<Obj(Str(<<"uuid-1">>), Str(<<"a">>), Arr(<<>>), Num, Str(<<"T1">>))>>)),
      JsonText(Arr(<<Obj(Str(<<"uuid-1">>), Str(<<"<">>), Arr(<<>>), Undef, Str(<<"T1">>))>>)),
      JsonText(Arr(<<Obj(Str(<<"uuid-1">>), Str(<<"a">>), Str(<<"t">>), Undef, Str(<<"T1">>))>>)),
      JsonText(Arr(<<Obj(Str(<<"uuid-1">>), Str(<<" ", "a">>), Undef, Null, Str(<<"T2">>))>>)),
      JsonText(Arr(<<>>)),
      JsonText(Arr(<<GoodObj("uuid-1", <<"a">>), GoodObj("uuid-2", <<"b">>),
                     GoodObj("hex-3", <<"a">>)>>)) }

Call(name, id, input) == [name |-> name, id |-> id, input |-> input]

\* how many elements of the value the catch branch removes were readable
discarded(st) ==
    IF getEntries(st).store = st \/ st.t # "json" \/ st.v[1].t # "array" THEN 0
    ELSE Cardinality({k \in DOMAIN st.v[1].v : readEntry(st.v[1].v[k]).ok})

\* the entries of a sequence whose id is not id, in their order
Others(entries, id) == SelectSeq(entries, LAMBDA e : e.id # id)

\* the fields updateEntry is asked to change
Given(x) == x.t # "undefined"

\* the entries with the fields given in u put, validated, into the first
\* entry with the id
Amend(entries, id, u) ==
    IF \A k \in DOMAIN entries : entries[k].id # id THEN entries
    ELSE LET k == CHOOSE j \in DOMAIN entries :
                      entries[j].id = id /\ \A i \in 1..(j - 1) : entries[i].id # id
         IN  [entries EXCEPT ![k] =
                 Entry(@.id,
                       IF Given(u.message) THEN validateAndSanitizeText(u.message).val
                       ELSE @.message,
                       IF Given(u.tags) THEN validateTags(u.tags).val ELSE @.tags,
                       IF Given(u.category) THEN categoryOrUndefined(u.category).val
                       ELSE @.category,
                       @.timestamp)]

\* the entries a caller expects after the call ended with e and returned r:
\* a successful add appends what it returned, a successful delete removes the
\* id, a successful update amends the entry, anything else changes nothing
Track(entries, call, e, r) ==
    IF e # "none" THEN entries
    ELSE CASE call.name = "addEntry" -> entries \o r
           [] call.name = "deleteEntry" -> Others(entries, call.id.v)
           [] call.name = "updateEntry" -> Amend(entries, call.id.v, call.input)
           [] OTHER -> entries

\* the browsing contexts (tabs) that share the key
Contexts == {1, 2}
Idle == [pc |-> "idle", call |-> Call("none", Undef, NoInput), entries |-> <<>>]
NoHistory == [returned |-> {}, deleted |-> {}, adds |-> 0]

\* every key of localStorage but 'devlog_entries': a key of the layer that
\* is not the collection, and keys of unrelated data of the same origin
OtherKeys ==
    { <<"devlog_", "theme">>, <<"entries">>, <<"theme">>, <<"devlog">>,
      <<"__storage_test__">> }
\* unrelated data, present before the layer is used
Unrelated ==
    [k \in OtherKeys |->
        IF k \in {<<"entries">>, <<"theme">>, <<"devlog">>} THEN Text(<<"x">>) ELSE Null]

Init ==
    /\ store = Null
    /\ op = Call("init", Undef, NoInput)
    /\ err = "none"
    /\ ret = <<>>
    /\ hit = FALSE
    /\ added = <<>>
    /\ stats = <<>>
    /\ lost = 0
    /\ live = <<>>
    /\ ctx = [c \in Contexts |-> Idle]
    /\ history = NoHistory
    /\ others = Unrelated
    /\ limiter = NewLimiter

\* what the outcome o of a mutating call leaves in the state
Finish(o) ==
    /\ store' = o.store
    /\ err' = o.err
    /\ ret' = o.ret
    /\ hit' = o.hit

\* the id generator, the clock and the store are reached only with valid input
AddEntry ==
    \E input \in AddInputs :
      \E id \in IF validAddInput(input) THEN NewIds ELSE {<<"uuid-1">>},
         now \in IF validAddInput(input) THEN Clock ELSE {1},
         full \in IF validAddInput(input) THEN BOOLEAN ELSE {FALSE} :
        \E o \in {addEntry(input, id, now, store, full)} :
            /\ Finish(o)
            /\ op' = Call("addEntry", Undef, input)
            /\ added' = IF o.err = "none" THEN o.ret
                        ELSE IF o.store = store THEN added ELSE <<>>
            /\ lost' = IF validAddInput(input) THEN discarded(store) ELSE 0
            /\ live' = Track(live, Call("addEntry", Undef, input), o.err, o.ret)
            /\ UNCHANGED <<stats, ctx, history, others, limiter>>

DeleteEntry ==
    \E id \in CallIds, full \in BOOLEAN :
        \E o \in {deleteEntry(id, store, full)} :
            /\ Finish(o)
            /\ op' = Call("deleteEntry", id, NoInput)
            /\ added' = IF o.store = store THEN added ELSE <<>>
            /\ lost' = IF validateEntryId(id).ok THEN discarded(store) ELSE 0
            /\ live' = Track(live, Call("deleteEntry", id, NoInput), o.err, o.ret)
            /\ UNCHANGED <<stats, ctx, history, others, limiter>>

UpdateEntry ==
    \E id \in CallIds, updates \in UpdateInputs, full \in BOOLEAN :
        \E o \in {updateEntry(id, updates, store, full)} :
            /\ Finish(o)
            /\ op' = Call("updateEntry", id, updates)
            /\ added' = IF o.store = store THEN added ELSE <<>>
            /\ lost' = IF validateEntryId(id).ok THEN discarded(store) ELSE 0
            /\ live' = Track(live, Call("updateEntry", id, updates), o.err, o.ret)
            /\ UNCHANGED <<stats, ctx, history, others, limiter>>

GetEntries ==
    \E got \in {getEntries(store)} :
        /\ store' = got.store
        /\ ret' = got.entries
        /\ err' = "none"
        /\ hit' = (got.store # store)
        /\ op' = Call("getEntries", Undef, NoInput)
        /\ added' = IF got.store = store THEN added ELSE <<>>
        /\ lost' = discarded(store)
        /\ UNCHANGED <<stats, live, ctx, history, others, limiter>>

\* another browsing context, or the user, overwrites or removes the key
ExternalWrite ==
    \E value \in ExternalValues :
        /\ value # store
        /\ store' = value
        /\ op' = Call("external", Undef, NoInput)
        /\ err' = "none"
        /\ ret' = <<>>
        /\ hit' = FALSE
        /\ added' = <<>>
        /\ lost' = 0
        /\ live' = getEntries(value).entries
        /\ UNCHANGED <<stats, ctx, history, others, limiter>>

GetStatistics ==
    \E got \in {getEntries(store)} :
      \E result \in getStatistics(got.entries) :
        /\ stats' = <<result>>
        /\ store' = got.store
        /\ ret' = got.entries
        /\ err' = "none"
        /\ hit' = (got.store # store)
        /\ op' = Call("getStatistics", Undef, NoInput)
        /\ added' = IF got.store = store THEN added ELSE <<>>
        /\ lost' = discarded(store)
        /\ UNCHANGED <<live, ctx, history, others, limiter>>

Next == AddEntry \/ DeleteEntry \/ UpdateEntry \/ GetEntries \/ ExternalWrite

\* every context and the user: the key may be overwritten from outside
Spec == Init /\ [][Next]_vars

NextApp == AddEntry \/ DeleteEntry \/ UpdateEntry \/ GetEntries

\* one context, from empty storage, the key written by storage alone
SpecApp == Init /\ [][NextApp]_vars

\* tag lists and categories of the collections statistics are computed on
StatsTagLists ==
    { <<>>, <<(<<"a">>)>>, <<(<<"b">>), (<<"a">>)>>, <<(<<"c">>), (<<"c">>)>>,
      <<(<<"constructor">>)>>, <<(<<"a">>), (<<"__proto__">>)>> }
StatsCategories == {Undef, Str(<<"w">>), Str(<<"p">>), Str(<<"constructor">>)}
StatsEntries ==
    { Entry(<<"uuid-1">>, <<"a">>, tags, category, 1) :
        tags \in StatsTagLists, category \in StatsCategories }
MaxStatsEntries == 3
StatsCollections ==
    UNION { [1..n -> StatsEntries] : n \in 0..MaxStatsEntries }

\* a collection the application has persisted
InitStats ==
    /\ store \in { saveEntries(c, Null, FALSE).store : c \in StatsCollections }
    /\ op = Call("init", Undef, NoInput)
    /\ err = "none"
    /\ ret = <<>>
    /\ hit = FALSE
    /\ added = <<>>
    /\ stats = <<>>
    /\ lost = 0
    /\ live = getEntries(store).entries
    /\ ctx = [c \in Contexts |-> Idle]
    /\ history = NoHistory
    /\ others = Unrelated
    /\ limiter = NewLimiter

NextStats == GetStatistics

\* tag lists and categories with ties: names, and names that are canonical
\* array indices ("2" met before "1")
RankTagLists ==
    { <<>>, <<(<<"a">>)>>, <<(<<"b">>), (<<"a">>)>>, <<(<<"1">>)>>,
      <<(<<"2">>), (<<"1">>)>>, <<(<<"b">>), (<<"2">>)>>, <<(<<"constructor">>)>> }
RankCategories == {Undef, Str(<<"w">>), Str(<<"1">>)}
RankEntries ==
    { Entry(<<"uuid-1">>, <<"a">>, tags, category, 1) :
        tags \in RankTagLists, category \in RankCategories }
MaxRankEntries == 2
RankCollections ==
    UNION { [1..n -> RankEntries] : n \in 0..MaxRankEntries }

\* a collection with ties the application has persisted
InitRank ==
    /\ store \in { saveEntries(c, Null, FALSE).store : c \in RankCollections }
    /\ op = Call("init", Undef, NoInput)
    /\ err = "none"
    /\ ret = <<>>
    /\ hit = FALSE
    /\ added = <<>>
    /\ stats = <<>>
    /\ lost = 0
    /\ live = getEntries(store).entries
    /\ ctx = [c \in Contexts |-> Idle]
    /\ history = NoHistory
    /\ others = Unrelated
    /\ limiter = NewLimiter

NextRank == GetStatistics

\* getStatistics on persisted collections whose tags and categories tie
SpecRank == InitRank /\ [][NextRank]_vars

(***************************************************************************)
(* Two browsing contexts on the one key.  A mutating call reads the key    *)
(* (`const entries = this.getEntries()`) and writes it later, in           *)
(* saveEntries; between the two another context may run.                   *)
(***************************************************************************)
\* mutant: the call reads the key again when it comes to write
resumeFresh(entries, st) == getEntries(st)

\* a call goes on with the entries it read, over the key as it is by now
resume(entries, st) == [entries |-> entries, store |-> st]

\* the rest of a mutating call, from the line after its getEntries
finishCall(call, id, now, got, full) ==
    CASE call.name = "addEntry" ->
             addValidated(newEntryOf(call.input, id, now), got, full)
      [] call.name = "deleteEntry" ->
             deleteValidated(validateEntryId(call.id).val, got, full)
      [] call.name = "updateEntry" ->
             updateValidated(validateEntryId(call.id).val, call.input, got, full)

\* the calls the two contexts make, all with valid arguments
SharedCalls ==
    { Call("addEntry", Undef, In(Str(<<"a">>), Arr(<<>>), Undef, Undef, Undef)),
      Call("deleteEntry", Str(<<"uuid-1">>), NoInput),
      Call("updateEntry", Str(<<"uuid-1">>),
           In(Str(<<"b">>), Undef, Undef, Undef, Undef)) }

\* what the finished call adds to the history
Record(h, call, o) ==
    [returned |-> h.returned \cup {o.ret[k].id : k \in DOMAIN o.ret},
     deleted |-> IF call.name = "deleteEntry" THEN h.deleted \cup {call.id.v}
                 ELSE h.deleted,
     adds |-> IF call.name = "addEntry" /\ o.err = "none" /\ h.adds <= MaxEntries
              THEN h.adds + 1 ELSE h.adds]

\* context c enters a call and reads the key
ReadStep(c) ==
    /\ ctx[c].pc = "idle"
    /\ \E call \in SharedCalls :
         \E got \in {getEntries(store)} :
            /\ ctx' = [ctx EXCEPT ![c] =
                           [pc |-> "write", call |-> call, entries |-> got.entries]]
            /\ store' = got.store
            /\ lost' = discarded(store)
    /\ UNCHANGED <<op, err, ret, hit, added, stats, live, history, others, limiter>>

\* context c finishes its call: the checks after the read, and saveEntries
WriteStep(c) ==
    /\ ctx[c].pc = "write"
    /\ \E id \in IF ctx[c].call.name = "addEntry" THEN NewIds ELSE {<<"uuid-1">>} :
         \E o \in {finishCall(ctx[c].call, id, 1, resume(ctx[c].entries, store), FALSE)} :
            /\ Finish(o)
            /\ history' = Record(history, ctx[c].call, o)
    /\ op' = ctx[c].call
    /\ ctx' = [ctx EXCEPT ![c] = Idle]
    /\ added' = <<>>
    /\ lost' = 0
    /\ UNCHANGED <<stats, live, others, limiter>>

NextShared == \E c \in Contexts : ReadStep(c) \/ WriteStep(c)

\* two contexts, their read steps and write steps interleaved in any order
SpecShared == Init /\ [][NextShared]_vars

\* getStatistics on every persisted collection of the bounded shapes
SpecStats == InitStats /\ [][NextStats]_vars

(***************************************************************************)
(* SecureStorage called with any key, over the whole of localStorage.      *)
(***************************************************************************)
\* the full key of the collection, 'devlog_entries'
EntriesKey == fullKey(STORAGE_KEY)

\* localStorage: the key of the collection and the other keys together
localStorageOf(st, oth) ==
    [k \in OtherKeys \cup {EntriesKey} |-> IF k = EntriesKey THEN st ELSE oth[k]]

\* keys SecureStorage is called with: the collection, another name, a name
\* with a blank, the empty name
CallKeys == {STORAGE_KEY, <<"theme">>, <<"theme", " ">>, <<>>}
\* values written under a key
CallValues == {Text(<<"y">>), Text(<<"y", "y">>)}

\* what a call of SecureStorage leaves in the state
FinishKey(name, key, e, r, ls) ==
    /\ store' = ls[EntriesKey]
    /\ others' = [k \in OtherKeys |-> ls[k]]
    /\ op' = Call(name, Str(key), NoInput)
    /\ err' = e
    /\ ret' = r
    /\ hit' = FALSE
    /\ added' = <<>>
    /\ lost' = 0
    /\ UNCHANGED <<stats, live, ctx, history, limiter>>

SetItem ==
    \E key \in CallKeys, value \in CallValues, full \in BOOLEAN :
        \E o \in {setItem(key, value, localStorageOf(store, others), full)} :
            FinishKey("setItem", key, o.err, <<>>, o.ls)

GetItem ==
    \E key \in CallKeys :
        FinishKey("getItem", key, "none",
                  <<getItem(key, localStorageOf(store, others))>>,
                  localStorageOf(store, others))

RemoveItem ==
    \E key \in CallKeys :
        FinishKey("removeItem", key, "none", <<>>,
                  removeItem(key, localStorageOf(store, others)))

Clear ==
    FinishKey("clear", <<>>, "none", <<>>, clear(localStorageOf(store, others)))

\* the availability test of SecurityWrapper, and other code of the origin:
\* writes and removals that do not go through SecureStorage
ForeignWrite ==
    \E k \in {<<"__storage_test__">>, <<"theme">>},
       value \in {Null, Text(<<"x">>), Text(<<"z">>)} :
        /\ others[k] # value
        /\ others' = [others EXCEPT ![k] = value]
        /\ op' = Call("foreign", Str(k), NoInput)
        /\ err' = "none"
        /\ ret' = <<>>
        /\ hit' = FALSE
        /\ added' = <<>>
        /\ lost' = 0
        /\ UNCHANGED <<store, stats, live, ctx, history, limiter>>

NextKeys == SetItem \/ GetItem \/ RemoveItem \/ Clear \/ ForeignWrite

\* SecureStorage used with any key, beside unrelated data of the origin
SpecKeys == Init /\ [][NextKeys]_vars

(***************************************************************************)
(* The rate limiter, called at times that never decrease.                  *)
(***************************************************************************)
\* what a call of the limiter leaves in the rest of the state
FinishLimiter(name, key, result) ==
    /\ op' = Call(name, Str(<<key>>), NoInput)
    /\ err' = "none"
    /\ ret' = <<>>
    /\ hit' = result
    /\ UNCHANGED <<store, added, stats, lost, live, ctx, history, others>>

Check ==
    \E key \in LimiterKeys :
        \E o \in {check(key, limiter.now, limiter.attempts)} :
            /\ limiter' =
                   [limiter EXCEPT
                        !.attempts = o.attempts,
                        !.granted[key] = IF o.result THEN Append(@, limiter.now) ELSE @]
            /\ FinishLimiter("check", key, o.result)

Reset ==
    \E key \in LimiterKeys :
        /\ limiter' = [limiter EXCEPT !.attempts = reset(key, @),
                                      !.granted[key] = <<>>]
        /\ FinishLimiter("reset", key, FALSE)

\* Date.now() moves on
Tick ==
    /\ limiter.now < MaxTime
    /\ limiter' = [limiter EXCEPT !.now = @ + 1]
    /\ UNCHANGED <<store, op, err, ret, hit, added, stats, lost, live, ctx, history,
                   others>>

NextLimiter == Check \/ Reset \/ Tick

\* any sequence of check and reset calls at non-decreasing times
SpecLimiter == Init /\ [][NextLimiter]_vars

(***************************************************************************)
(* Properties.                                                             *)
(***************************************************************************)
\* what getEntries returns on the raw value st
Read(st) == getEntries(st).entries

Contains(entries, e) == \E k \in DOMAIN entries : entries[k] = e

\* C1: after a successful addEntry the collection read back holds an entry
\* with the returned id and timestamp whose message, tags and category are
\* the sanitized input, and every read made before the next write of the key
\* returns that same entry.
C1_RoundTrip ==
    /\ (op.name = "addEntry" /\ err = "none") =>
            /\ Len(ret) = 1 /\ added = ret
            /\ \E k \in DOMAIN Read(store) :
                   /\ Read(store)[k].id = ret[1].id
                   /\ Read(store)[k].timestamp = ret[1].timestamp
                   /\ Read(store)[k].message
                          = validateAndSanitizeText(op.input.message).val
                   /\ Read(store)[k].tags = validateTags(op.input.tags).val
                   /\ Read(store)[k].category
                          = categoryOrUndefined(op.input.category).val
    /\ added # <<>> => Contains(Read(store), added[1])
    /\ (op.name = "getEntries" /\ added # <<>>) => Contains(ret, added[1])

\* a read that follows the adding of the entry with a tag and a category
C1_Witness ==
    /\ op.name = "getEntries"
    /\ added # <<>>
    /\ added[1].category = Str(<<"w">>)
    /\ added[1].tags = <<(<<"t">>)>>
    /\ Len(ret) = 2

\* the last step was a call of addEntry, of deleteEntry, of updateEntry
\* (read in the state after the step: op' names the call that made it)
IsAdd(o) == o.name = "addEntry"
IsDelete(o) == o.name = "deleteEntry" /\ validateEntryId(o.id).ok
IsUpdate(o) == o.name = "updateEntry" /\ validateEntryId(o.id).ok
Absent(entries, id) == \A k \in DOMAIN entries : entries[k].id # id.v

\* C2 as stated: the collection never exceeds the cap, and addEntry on a
\* collection that holds exactly the cap fails with the capacity error and
\* leaves the cap entries in place.
C2_AddAtCapIsCapacityError ==
    [][ /\ Len(Read(store')) <= MaxEntries
        /\ (IsAdd(op') /\ Len(Read(store)) = MaxEntries) =>
              (err' = "capacity" /\ Len(Read(store')) = MaxEntries) ]_vars

\* C2, amended: the collection never exceeds the cap; addEntry on a collection
\* that holds exactly the cap fails, with the capacity error when its fields
\* are valid and with the validation error (raised first) when they are not,
\* and leaves the cap entries in place.
C2_Cap ==
    [][ /\ Len(Read(store')) <= MaxEntries
        /\ (IsAdd(op') /\ Len(Read(store)) = MaxEntries) =>
              /\ err' = IF validAddInput(op'.input) THEN "capacity" ELSE "validation"
              /\ Len(Read(store')) = MaxEntries ]_vars

\* addEntry with valid fields was refused on a full collection
C2_Witness ==
    /\ op.name = "addEntry"
    /\ err = "capacity"
    /\ validAddInput(op.input)
    /\ Len(Read(store)) = MaxEntries

\* the id and message of an element are strings, and every field passes the
\* validation getEntries applies to it
AcceptedElement(e) ==
    /\ e.t = "object"
    /\ IsString(e.v[1]) /\ validateEntryId(e.v[1]).ok
    /\ IsString(e.v[2]) /\ validateAndSanitizeText(e.v[2]).ok
    /\ e.v[3].t = "array" => validateTags(e.v[3]).ok
    /\ Truthy(e.v[4]) => validateAndSanitizeCategory(e.v[4]).ok
    /\ validateTimestamp(e.v[5]).ok

\* an entry of the persisted layout: id, message and timestamp strings, tags
\* an array of strings when given, category a string when given
WellFormedElement(e) ==
    /\ e.t = "object"
    /\ IsString(e.v[1]) /\ IsString(e.v[2]) /\ IsString(e.v[5])
    /\ e.v[3].t \in {"array", "undefined"}
    /\ e.v[3].t = "array" => \A k \in DOMAIN e.v[3].v : IsString(e.v[3].v[k])
    /\ e.v[4].t \in {"string", "undefined"}

\* the raw value is JSON text of an array
IsJsonArray(st) == st.t = "json" /\ st.v[1].t = "array"

WellFormedBlob(st) ==
    IsJsonArray(st) /\ \A k \in DOMAIN st.v[1].v : WellFormedElement(st.v[1].v[k])

AcceptedBlob(st) ==
    IsJsonArray(st) /\ \A k \in DOMAIN st.v[1].v : AcceptedElement(st.v[1].v[k])

\* C3 as stated: getEntries on any stored value that is not valid JSON or not
\* a JSON array of well-formed entries returns the empty sequence and leaves
\* the key absent.
C3_EveryMalformedValueIsCleared ==
    [][ (op'.name = "getEntries" /\ store # Null /\ ~WellFormedBlob(store)) =>
            (ret' = <<>> /\ err' = "none" /\ store' = Null) ]_vars

\* C3, amended: getEntries never raises; on a non-empty stored value that is
\* not valid JSON, is not a JSON array, or has an element that is not an
\* object, lacks a string id or message, or has a field that fails validation,
\* it returns the empty sequence and leaves the key absent.  The empty string
\* is treated as an absent key (empty result, key left in place), and an
\* element whose tags are not an array, or whose category is falsy, is read
\* with no tags, or no category, instead of failing the read.
C3_CorruptionRecovery ==
    [][ (op'.name = "getEntries" /\ store # Null) =>
            /\ err' = "none"
            /\ store = Text(<<>>) => (ret' = <<>> /\ store' = store)
            /\ (store # Text(<<>>) /\ ~AcceptedBlob(store)) =>
                   (ret' = <<>> /\ store' = Null)
            /\ AcceptedBlob(store) =>
                   (Len(ret') = Len(store.v[1].v) /\ store' = store) ]_vars

\* getEntries has just removed a value that was not readable
C3_Witness ==
    /\ op.name = "getEntries"
    /\ hit
    /\ store = Null
    /\ ret = <<>>

\* C4: updateEntry with a well-formed id that no entry has fails with the
\* not-found error whatever the updates are, and the collection read back is
\* the one read before: the key is not written (an unreadable value is
\* removed by the read, as by any read).
C4_UpdateNotFound ==
    [][ (IsUpdate(op') /\ Absent(Read(store), op'.id)) =>
            /\ err' = "not-found"
            /\ Read(store') = Read(store)
            /\ store' = store \/ (store' = Null /\ Read(store) = <<>>) ]_vars

\* updateEntry with invalid updates was refused as not found on a collection
\* that holds entries
C4_Witness ==
    /\ IsUpdate(op)
    /\ err = "not-found"
    /\ ~updateMessage(op.input).ok
    /\ Len(Read(store)) > 0

\* C5 as stated: deleteEntry with a well-formed id that no entry has succeeds
\* and getEntries returns the same sequence as before.
C5_DeleteAbsentAlwaysSucceeds ==
    [][ (IsDelete(op') /\ Absent(Read(store), op'.id)) =>
            (err' = "none" /\ Read(store') = Read(store)) ]_vars

\* C5, amended: deleteEntry with a well-formed id that no entry has never
\* fails as not found and getEntries returns the same sequence as before; it
\* still rewrites the whole collection, so it succeeds unless the store
\* rejects that write for lack of space, and after success the key holds the
\* serialized collection.
C5_DeleteAbsentNoOp ==
    [][ (IsDelete(op') /\ Absent(Read(store), op'.id)) =>
            /\ err' \in {"none", "quota", "quota-guard"}
            /\ Read(store') = Read(store)
            /\ err' = "none" => IsJsonArray(store') ]_vars

\* deleteEntry of an id that no entry has succeeded on a collection of two
C5_Witness ==
    /\ IsDelete(op)
    /\ err = "none"
    /\ ~hit
    /\ Len(Read(store)) = 2

\* C6: a successful updateEntry leaves the length of the collection, and in
\* the first entry with the id: the id and the timestamp as they were, each
\* of message, tags, category given in the updates at its validated new
\* value, and each one not given at its previous value.
C6_UpdateFrame ==
    [][ (IsUpdate(op') /\ err' = "none") =>
            LET old == Read(store)
                new == Read(store')
                k == findIndex(old, op'.id.v)
                u == op'.input
            IN  /\ k # 0 /\ Len(new) = Len(old)
                /\ new[k].id = old[k].id
                /\ new[k].timestamp = old[k].timestamp
                /\ new[k].message = IF Given(u.message)
                                    THEN validateAndSanitizeText(u.message).val
                                    ELSE old[k].message
                /\ new[k].tags = IF Given(u.tags) THEN validateTags(u.tags).val
                                 ELSE old[k].tags
                /\ new[k].category = IF Given(u.category)
                                     THEN categoryOrUndefined(u.category).val
                                     ELSE old[k].category ]_vars

\* an update carrying an id and a timestamp succeeded
C6_Witness ==
    /\ IsUpdate(op)
    /\ err = "none"
    /\ Given(op.input.id) /\ Given(op.input.timestamp)
    /\ op.input.id # op.id
    /\ \E k \in DOMAIN Read(store) :
           Read(store)[k].id = op.id.v /\ Date(Read(store)[k].timestamp) # op.input.timestamp

\* C7: after a successful deleteEntry(id) no entry read back has the id, and
\* the entries read back are the entries with another id, in their order.
C7_DeleteRemoves ==
    [][ (IsDelete(op') /\ err' = "none") =>
            /\ Absent(Read(store'), op'.id)
            /\ Read(store') = Others(Read(store), op'.id.v) ]_vars

\* a delete removed an entry and left two
C7_Witness ==
    /\ IsDelete(op)
    /\ err = "none"
    /\ hit
    /\ Len(Read(store)) = 2

\* C8: when addEntry, updateEntry or deleteEntry ends with an error,
\* getEntries returns after the call what it returned before it.
C8_ErrorLeavesCollection ==
    [][ (op'.name \in {"addEntry", "updateEntry", "deleteEntry"} /\ err' # "none") =>
            /\ err' \in {"validation", "not-found", "capacity", "quota", "quota-guard"}
            /\ Read(store') = Read(store) ]_vars

\* a write was refused for lack of space on a collection that holds an entry
C8_Witness ==
    /\ op.name \in {"addEntry", "updateEntry"}
    /\ err \in {"quota", "quota-guard"}
    /\ Len(Read(store)) > 0

\* C10: a getEntries made right after a getEntries returns the same sequence
\* and leaves the key as the first call left it, whatever the key held.
C10_ReadIdempotent ==
    op.name = "getEntries" => getEntries(store) = [entries |-> ret, store |-> store]

\* the first call emptied an unreadable value
C10_Witness ==
    /\ op.name = "getEntries"
    /\ hit
    /\ ret = <<>>

\* the tags of all entries, with repetitions, in collection order
RECURSIVE AllTags(_)
AllTags(entries) ==
    IF entries = <<>> THEN <<>> ELSE Head(entries).tags \o AllTags(Tail(entries))

\* the categories of the entries that have one
RECURSIVE AllCategories(_)
AllCategories(entries) ==
    IF entries = <<>> THEN <<>>
    ELSE (IF Head(entries).category = Undef THEN <<>> ELSE <<Head(entries).category.v>>)
         \o AllCategories(Tail(entries))

Occurrences(keys, key) == Cardinality({k \in DOMAIN keys : keys[k] = key})
Distinct(keys) == {keys[k] : k \in DOMAIN keys}

\* a ranking of the keys as the claim describes it
RankingOf(ranking, keys) ==
    /\ Len(ranking) <= TopN
    /\ \A k \in DOMAIN ranking :
           /\ ranking[k].key \in Distinct(keys)
           /\ ranking[k].count = Number(Occurrences(keys, ranking[k].key))
    /\ \A j, k \in DOMAIN ranking : j < k => ranking[j].count.n >= ranking[k].count.n
    /\ \A key \in Distinct(keys) :
           (\A k \in DOMAIN ranking : ranking[k].key # key) =>
               \A k \in DOMAIN ranking : Occurrences(keys, key) <= ranking[k].count.n

\* C9 as stated: getStatistics returns the number of entries, of distinct
\* tags and of distinct categories, and two rankings of at most ten pairs
\* whose counts are the numbers of occurrences, in non-increasing order, with
\* no key left out that occurs more often than a listed one.
C9_Statistics ==
    op.name = "getStatistics" =>
        /\ stats[1].totalEntries = Len(Read(store))
        /\ stats[1].totalTags = Cardinality(Distinct(AllTags(Read(store))))
        /\ stats[1].totalCategories = Cardinality(Distinct(AllCategories(Read(store))))
        /\ RankingOf(stats[1].mostUsedTags, AllTags(Read(store)))
        /\ RankingOf(stats[1].mostUsedCategories, AllCategories(Read(store)))

\* the call of the last step reached its `this.getEntries()`
Reads(o) ==
    \/ o.name \in {"getEntries", "getStatistics"}
    \/ IsAdd(o) /\ validAddInput(o.input)
    \/ IsDelete(o)
    \/ IsUpdate(o)

\* the persisted array has an element getEntries does not accept
HasBadElement(st) ==
    IsJsonArray(st) /\ \E k \in DOMAIN st.v[1].v : ~AcceptedElement(st.v[1].v[k])

\* C11: when the persisted array has an element that is not an object, lacks
\* a string id or message, or has a field failing the validation getEntries
\* applies, getEntries returns the empty sequence whatever the other elements
\* are and removes the key; a mutating call that reads such an array works on
\* the empty collection, so afterwards nothing is left of the valid elements.
C11_FailClosed ==
    [][ (Reads(op') /\ HasBadElement(store)) =>
            /\ getEntries(store) = [entries |-> <<>>, store |-> Null]
            /\ op'.name = "getEntries" => (ret' = <<>> /\ store' = Null)
            /\ Read(store') = IF IsAdd(op') /\ err' = "none" THEN ret' ELSE <<>>
            /\ lost' = Cardinality({k \in DOMAIN store.v[1].v :
                                      AcceptedElement(store.v[1].v[k])}) ]_vars

\* getEntries has just removed an array that held a readable element
C11_Witness ==
    /\ op.name = "getEntries"
    /\ lost > 0
    /\ store = Null
    /\ ret = <<>>

\* the ids of the entries, in collection order
Ids(entries) == [k \in DOMAIN entries |-> entries[k].id]

NoDuplicateId(entries) ==
    \A j, k \in DOMAIN entries : j # k => entries[j].id # entries[k].id

\* what a call o that ended with e and returned r does to the ids
IdsKept(old, new, o, e, r) ==
    /\ Ids(new) = IF e # "none" THEN Ids(old)
                   ELSE IF IsAdd(o) THEN Ids(old) \o <<r[1].id>>
                   ELSE IF IsDelete(o) THEN SelectSeq(Ids(old), LAMBDA i : i # o.id.v)
                   ELSE Ids(old)
    /\ ( /\ NoDuplicateId(old)
         /\ (IsAdd(o) /\ e = "none") => \A k \in DOMAIN old : old[k].id # r[1].id )
       => NoDuplicateId(new)

Wrote(c) == ctx[c].pc = "write" /\ ctx'[c].pc = "idle"

\* C13: the write step of a call never fails because the key was changed
\* since the call read it, and when it succeeds the persisted collection is
\* the collection this call read with this call's change applied: whatever
\* another context wrote in between is replaced.
C13_LastWriterWins ==
    [][ \A c \in Contexts : Wrote(c) =>
            /\ err' \in {"none", "capacity", "not-found"}
            /\ err' = "none" =>
                   Read(store') = Track(ctx[c].entries, op', "none", ret')
            /\ err' # "none" => store' = store ]_vars

\* an id addEntry returned is not in the persisted collection, and
\* deleteEntry was never called with it
C13_Witness ==
    \E id \in history.returned :
        /\ id \notin history.deleted
        /\ \A k \in DOMAIN Read(store) : Read(store)[k].id # id

\* C14: with every call running as one step, getEntries returns exactly the
\* entries that addEntry returned and no later deleteEntry removed, in the
\* order of their adding, each with the values of the last successful
\* updateEntry made to it.
C14_NoLostUpdate == Read(store) = live

\* after two adds, the entry first added was given a new message
C14_Witness ==
    /\ IsUpdate(op)
    /\ err = "none"
    /\ Given(op.input.message)
    /\ Len(live) = 2
    /\ live[1].id = op.id.v
    /\ live[1].message = validateAndSanitizeText(op.input.message).val
    /\ live[2].message # live[1].message

\* the last step was a call of SecureStorage
IsLayerCall(o) == o.name \in {"setItem", "getItem", "removeItem", "clear"}

\* C15: a call of SecureStorage leaves every key that does not start with
\* 'devlog_' as it was, clear included; setItem, getItem and removeItem
\* touch no key but 'devlog_' followed by the name they are given, and
\* getItem returns what is kept under that key.
C15_NamespaceFrame ==
    [][ IsLayerCall(op') =>
            \A ls \in {localStorageOf(store, others)},
               after \in {localStorageOf(store', others')} :
                /\ \A k \in DOMAIN ls :
                       ~startsWith(k, STORAGE_KEY_PREFIX) => after[k] = ls[k]
                /\ op'.name # "clear" =>
                       \A k \in DOMAIN ls :
                           after[k] # ls[k] => k = STORAGE_KEY_PREFIX \o op'.id.v
                /\ (op'.name = "getItem" /\ ret' # <<Null>>) =>
                       ret' = <<ls[STORAGE_KEY_PREFIX \o op'.id.v]>>
                /\ op'.name = "clear" =>
                       \A k \in DOMAIN ls :
                           startsWith(k, STORAGE_KEY_PREFIX) => after[k] = Null ]_vars

\* clear has emptied the keys of the layer and left the unrelated data,
\* the key 'entries' without the prefix included
C15_Witness ==
    /\ op.name = "clear"
    /\ store = Null
    /\ others[<<"entries">>] = Text(<<"x">>)
    /\ others[<<"theme">>] = Text(<<"z">>)
    /\ others[<<"devlog">>] # Null

\* the serialized collection addEntry would write is over the size guard
OverGuard(entries, input) ==
    saveEntries(push(entries, newEntryOf(input, <<"uuid-1">>, 1)), Null, FALSE).err
        = "quota-guard"

\* C16: addEntry, updateEntry and deleteEntry end with success, with a
\* validation, not-found or capacity error, or with one of the two
\* quota-exceeded errors of SecureStorage, never with the platform's
\* QuotaExceededError itself; after a quota-exceeded error no entry is
\* returned and the key is as it was; a value over the size guard is never
\* written, and an addEntry whose collection would be over the guard ends
\* with the guard's error.
C16_QuotaTranslation ==
    [][ op'.name \in {"addEntry", "updateEntry", "deleteEntry"} =>
            /\ err' \in {"none", "validation", "not-found", "capacity",
                          "quota", "quota-guard"}
            /\ err' \in {"quota", "quota-guard"} =>
                   (ret' = <<>> /\ Read(store') = Read(store))
            /\ err' = "none" => SizeOf(store') <= MaxBlobSize
            /\ ( /\ IsAdd(op') /\ validAddInput(op'.input)
                 /\ Len(Read(store)) < MaxEntries )
               => (err' = "quota-guard" <=> OverGuard(Read(store), op'.input)) ]_vars

\* the platform refused the write of addEntry for lack of space
C16_Witness ==
    /\ IsAdd(op)
    /\ err = "quota"
    /\ ret = <<>>
    /\ Len(Read(store)) = 1

\* the size guard refused the write of addEntry
C16_GuardWitness ==
    /\ IsAdd(op)
    /\ err = "quota-guard"
    /\ ret = <<>>

\* tags is a sequence
IsSequence(tags) == DOMAIN tags = 1..Len(tags)

\* the persisted elements getEntries has just mapped to the entries r
Mapped(st, r) == IsJsonArray(st) /\ Len(r) = Len(st.v[1].v)

\* C17 as stated: the tags of a returned entry are the empty sequence when
\* the persisted element has no tags field and the validated persisted tags
\* otherwise.
C17_TagsValidatedWhenPresent ==
    [][ (op'.name = "getEntries" /\ Mapped(store, ret')) =>
            \A k \in DOMAIN ret' :
                \A e \in {store.v[1].v[k]} :
                    IF e.v[3].t = "undefined" THEN ret'[k].tags = <<>>
                    ELSE validateTags(e.v[3]).ok
                         /\ ret'[k].tags = validateTags(e.v[3]).val ]_vars

\* C17, amended: every entry getEntries returns has a tags sequence: the
\* validated persisted tags when the element's tags are an array, and the
\* empty sequence when the element has no tags field or a tags value that is
\* not an array; an element with neither is never what getEntries, and so
\* getStatistics, works on.
C17_TagsNeverNull ==
    [][ /\ \A new \in {Read(store')} :
               \A k \in DOMAIN new : IsSequence(new[k].tags)
        /\ (op'.name = "getEntries" /\ AcceptedBlob(store)) =>
               /\ Mapped(store, ret')
               /\ \A k \in DOMAIN ret' :
                      \A e \in {store.v[1].v[k]} :
                          /\ IsSequence(ret'[k].tags)
                          /\ ret'[k].tags = IF e.v[3].t = "array"
                                            THEN validateTags(e.v[3]).val
                                            ELSE <<>> ]_vars

\* getEntries returned an entry, with no tags, for an element that has no
\* tags field
C17_Witness ==
    /\ op.name = "getEntries"
    /\ Mapped(store, ret)
    /\ Len(ret) = 1
    /\ store.v[1].v[1].v[3] = Undef
    /\ ret[1].tags = <<>>

\* what a successful call o that returned r leaves of the entries it is not
\* about: old read before it, new read after it
OthersKept(old, new, o, r) ==
    /\ IsAdd(o) => new = old \o r
    /\ IsUpdate(o) =>
           /\ Len(new) = Len(old)
           /\ \A k \in DOMAIN old : k # findIndex(old, o.id.v) => new[k] = old[k]
    /\ IsDelete(o) => new = Others(old, o.id.v)

\* C18: after a successful addEntry the entries read back are the entries
\* read before, unchanged and in their order, followed by the new one; after
\* a successful updateEntry every entry but the first with the id is as it
\* was, at its place; after a successful deleteEntry the entries with
\* another id are as they were, in their order.
C18_OthersUntouched ==
    [][ (op'.name \in {"addEntry", "updateEntry", "deleteEntry"} /\ err' = "none") =>
            \A old \in {Read(store)}, new \in {Read(store')} :
                OthersKept(old, new, op', ret') ]_vars

\* the second of three entries was updated and the two around it are as
\* they were
C18_Witness ==
    /\ IsUpdate(op)
    /\ err = "none"
    /\ op.id = Str(<<"uuid-2">>)
    /\ Given(op.input.message)
    /\ Len(Read(store)) = 3
    /\ Read(store)[1] = Entry(<<"uuid-1">>, <<"a">>, <<>>, Undef, 1)
    /\ Read(store)[2].message # <<"b">>
    /\ Read(store)[3] = Entry(<<"hex-3">>, <<"a">>, <<>>, Undef, 1)

\* getEntries reads the raw value st whole, leaves it in place, and
\* saveEntries would write each entry read as the element it was read from
ReadsBack(st, got) ==
    /\ AcceptedBlob(st)
    /\ got.store = st
    /\ Len(got.entries) = Len(st.v[1].v)
    /\ \A k \in DOMAIN got.entries : writeEntry(got.entries[k]) = Ok(st.v[1].v[k])

\* C19: with the key written by saveEntries alone, whatever the key holds
\* is read by getEntries as a sequence of the same length whose entries are
\* the ones written, getEntries never removes the key, and a collection that
\* was not empty reads as empty only after a successful deleteEntry.
C19_WriteReadCompatible ==
    [][ /\ op'.name = "getEntries" => (~hit' /\ store' = store /\ lost' = 0)
        /\ \A old \in {Read(store)}, got \in {getEntries(store')} :
               /\ store' # Null => ReadsBack(store', got)
               /\ (old # <<>> /\ got.entries = <<>>) =>
                      (IsDelete(op') /\ err' = "none") ]_vars

\* getEntries has read two entries the application wrote, one of them with
\* a category and a tag
C19_Witness ==
    /\ op.name = "getEntries"
    /\ ~hit
    /\ Len(ret) = 2
    /\ ret[1].category # Undef /\ ret[1].tags # <<>>
    /\ ret[2].category = Undef

\* C20: with the read steps and the write steps of two contexts interleaved
\* in any order, the persisted collection never holds more entries than the
\* cap: a write replaces the collection by the one its call read, with at
\* most one entry more, and a call that read the cap does not add.
C20_CapUnderInterleaving ==
    /\ Len(Read(store)) <= MaxEntries
    /\ \A c \in Contexts : Len(ctx[c].entries) <= MaxEntries

\* more addEntry calls succeeded than the cap allows entries, no deleteEntry
\* was called, and the collection holds exactly the cap
C20_Witness ==
    /\ history.adds > MaxEntries
    /\ history.deleted = {}
    /\ Len(Read(store)) = MaxEntries

\* where a key is first met when the keys are scanned in order
FirstSeen(keys, key) ==
    CHOOSE k \in DOMAIN keys : keys[k] = key /\ \A j \in 1..(k - 1) : keys[j] # key

\* pairs of equal count stand in the order their keys were first met
TiesFirstSeen(ranking, keys) ==
    \A i, j \in DOMAIN ranking :
        (i < j /\ ranking[i].count = ranking[j].count) =>
            FirstSeen(keys, ranking[i].key) < FirstSeen(keys, ranking[j].key)

\* C21 as stated: of two tags (two categories) with the same count the one
\* met first in the scan of the entries is placed earlier in the ranking,
\* whatever the tag strings are.
C21_FirstSeenTieBreak ==
    op.name = "getStatistics" =>
        /\ TiesFirstSeen(stats[1].mostUsedTags, AllTags(ret))
        /\ TiesFirstSeen(stats[1].mostUsedCategories, AllCategories(ret))

\* the key is the decimal text of a non-negative integer, and which
IsIntegerLike(key) == \E n \in DOMAIN IndexKeys : IndexKeys[n] = key
IntegerOf(key) == CHOOSE n \in DOMAIN IndexKeys : IndexKeys[n] = key

\* a comes before b: integer-like keys first, by ascending value, then the
\* other keys as first met
EnumeratedBefore(keys, a, b) ==
    IF IsIntegerLike(a) /\ IsIntegerLike(b) THEN IntegerOf(a) < IntegerOf(b)
    ELSE IF IsIntegerLike(a) THEN TRUE
    ELSE IF IsIntegerLike(b) THEN FALSE
    ELSE FirstSeen(keys, a) < FirstSeen(keys, b)

\* no key is the name of a member of Object.prototype
PlainKeys(keys) ==
    \A k \in DOMAIN keys : keys[k] \notin InheritedKeys \cup {ProtoKey}

Listed(ranking, key) == \E k \in DOMAIN ranking : ranking[k].key = key

\* the ranking of the keys: their counts, descending, ties in enumeration
\* order, cut after the first TopN
RankedByEnumeration(ranking, keys) ==
    /\ Len(ranking) = IF Cardinality(Distinct(keys)) < TopN
                       THEN Cardinality(Distinct(keys)) ELSE TopN
    /\ \A k \in DOMAIN ranking :
           /\ ranking[k].key \in Distinct(keys)
           /\ ranking[k].count = Number(Occurrences(keys, ranking[k].key))
    /\ \A i, j \in DOMAIN ranking :
           i < j =>
               \/ ranking[i].count.n > ranking[j].count.n
               \/ /\ ranking[i].count.n = ranking[j].count.n
                  /\ EnumeratedBefore(keys, ranking[i].key, ranking[j].key)
    /\ \A key \in Distinct(keys) :
           ~Listed(ranking, key) =>
               \A k \in DOMAIN ranking :
                   \/ ranking[k].count.n > Occurrences(keys, key)
                   \/ /\ ranking[k].count.n = Occurrences(keys, key)
                      /\ EnumeratedBefore(keys, ranking[k].key, key)

\* C21, amended: when no tag (category) is the name of a member of
\* Object.prototype, the ranking is deterministic: descending counts, and of
\* two keys with the same count the one Object.entries lists first is placed
\* earlier, that is, keys that look like non-negative integers before all
\* others and in ascending numeric order, and the other keys in the order
\* they were first met.
C21_EnumerationTieBreak ==
    op.name = "getStatistics" =>
        /\ PlainKeys(AllTags(ret)) =>
               RankedByEnumeration(stats[1].mostUsedTags, AllTags(ret))
        /\ PlainKeys(AllCategories(ret)) =>
               RankedByEnumeration(stats[1].mostUsedCategories, AllCategories(ret))

\* the tag "2" was met before the tag "1", both once, and "1" is ranked first
C21_Witness ==
    /\ op.name = "getStatistics"
    /\ AllTags(ret) = <<(<<"2">>), (<<"1">>)>>
    /\ stats[1].mostUsedTags = <<Pair(<<"1">>, Number(1)), Pair(<<"2">>, Number(1))>>

\* of the true returns at the times g, any maxAttempts + 1 in a row span at
\* least windowMs: no window [t, t + windowMs) holds more than maxAttempts
WithinLimit(g) ==
    \A i \in DOMAIN g :
        i + maxAttempts \in DOMAIN g => g[i + maxAttempts] - g[i] >= windowMs

\* the calls of check(key) that returned true within windowMs before now
Recent(g, now) == Cardinality({i \in DOMAIN g : now - g[i] < windowMs})

\* what the step of check(key) or reset(key) from the limiter l to m, with
\* the result r, has to satisfy
LimiterStep(l, m, name, key, r) ==
    /\ \A k \in LimiterKeys \ {key} :
           m.attempts[k] = l.attempts[k] /\ m.granted[k] = l.granted[k]
    /\ name = "check" =>
           /\ r = (Recent(l.granted[key], l.now) < maxAttempts)
           /\ ~r => (m.attempts = l.attempts /\ m.granted = l.granted)
           /\ r => m.granted[key] = Append(l.granted[key], l.now)
    /\ name = "reset" =>
           /\ m.granted[key] = <<>>
           /\ \A t \in m.now..MaxTime : check(key, t, m.attempts).result

\* C22: for every key, no more than maxAttempts calls of check(key) return
\* true within any window of windowMs (one that starts at a time t and ends
\* before t + windowMs) of calls made since the key was last reset; check
\* returns true exactly when fewer than maxAttempts calls for the key
\* returned true within windowMs before it; a call that returns false leaves
\* the limiter as it was; a call for one key leaves the attempts of the
\* other keys alone; and after reset(key) the next check(key) returns true,
\* whenever it is made.
C22_RateLimiterWindow ==
    [][ /\ \A key \in LimiterKeys : WithinLimit(limiter'.granted[key])
        /\ (op'.name \in {"check", "reset"} /\ limiter'.now = limiter.now) =>
               LimiterStep(limiter, limiter', op'.name, op'.id.v[1], hit') ]_vars

\* a key was refused, and later, the window past, granted again, while the
\* other key was used too
C22_Witness ==
    /\ op.name = "check"
    /\ hit
    /\ op.id = Str(<<"k1">>)
    /\ Len(limiter.granted["k1"]) > maxAttempts
    /\ limiter.granted["k2"] # <<>>
    /\ Len(limiter.attempts["k1"]) < Len(limiter.granted["k1"])

====
